---- MODULE Spec2Model ----
(***************************************************************************)
(* Model of the payroll rules engine of src/index.tsx: applyRules and its  *)
(* helpers, driven by the App component's form state and its Calculate     *)
(* handler.                                                                *)
(*                                                                         *)
(* Numbers are JavaScript numbers restricted to integers plus NaN.  Hour   *)
(* values (toHours) are kept in hundredths of an hour, which is exactly    *)
(* the precision Math.round(x * 100) / 100 leaves.  The explanation text   *)
(* of a result is not modelled.                                            *)
(***************************************************************************)
EXTENDS Integers, Sequences, FiniteSets, TLC

VARIABLES date, start, end, breakMinutes, result, locals, calculated

vars == <<date, start, end, breakMinutes, result, locals, calculated>>

(***************************************************************************)
(* JavaScript number semantics: NaN is absorbing in arithmetic and in      *)
(* Math.max / Math.min, and every comparison with NaN is false.            *)
(***************************************************************************)
NaN == -999999

IsNaN(x) == x = NaN

Add(a, b) == IF IsNaN(a) \/ IsNaN(b) THEN NaN ELSE a + b

Sub(a, b) == IF IsNaN(a) \/ IsNaN(b) THEN NaN ELSE a - b

MathMax(a, b) == IF IsNaN(a) \/ IsNaN(b) THEN NaN ELSE IF a >= b THEN a ELSE b

MathMin(a, b) == IF IsNaN(a) \/ IsNaN(b) THEN NaN ELSE IF a <= b THEN a ELSE b

Lt(a, b) == ~IsNaN(a) /\ ~IsNaN(b) /\ a < b

Le(a, b) == ~IsNaN(a) /\ ~IsNaN(b) /\ a <= b

Gt(a, b) == ~IsNaN(a) /\ ~IsNaN(b) /\ a > b

(***************************************************************************)
(* Form values.  A time field holds "", a well-formed "HH:MM", or some     *)
(* other text; a date field holds "" or an ISO date; the break field holds *)
(* "", a decimal integer, or some other text.                              *)
(***************************************************************************)
EmptyTime == [kind |-> "empty", h |-> 0, m |-> 0]

BadTime == [kind |-> "bad", h |-> 0, m |-> 0]

HHMM(hh, mm) == [kind |-> "hhmm", h |-> hh, m |-> mm]

EmptyDate == [kind |-> "empty", y |-> 0, m |-> 0, d |-> 0]

ISODate(yy, mm, dd) == [kind |-> "iso", y |-> yy, m |-> mm, d |-> dd]

EmptyBreak == [kind |-> "empty", val |-> 0]

TextBreak == [kind |-> "text", val |-> 0]

NumBreak(n) == [kind |-> "num", val |-> n]

NULL == <<>>

(***************************************************************************)
(* Utility functions                                                       *)
(***************************************************************************)
parseTimeToMinutes(time) ==
  IF time.kind = "hhmm" THEN time.h * 60 + time.m ELSE NaN

overlapMinutes(start1, end1, start2, end2) ==
  LET s == MathMax(start1, start2)
      e == MathMin(end1, end2)
  IN  MathMax(0, Sub(e, s))

\* hundredths of an hour; mins * 100 / 60 is never half-way between integers
toHours(mins) == IF IsNaN(mins) THEN NaN ELSE (mins * 100 + 30) \div 60

DayNames ==
  <<"Sunday", "Monday", "Tuesday", "Wednesday", "Thursday", "Friday", "Saturday">>

MonthOffset == <<0, 3, 2, 5, 0, 3, 5, 1, 4, 6, 2, 4>>

\* Date.prototype.getDay of local midnight of a Gregorian date: 0 = Sunday
getDay(dt) ==
  LET yy == IF dt.m < 3 THEN dt.y - 1 ELSE dt.y
  IN  (yy + (yy \div 4) - (yy \div 100) + (yy \div 400)
          + MonthOffset[dt.m] + dt.d) % 7

getDayOfWeek(dt) == DayNames[getDay(dt) + 1]

roundUpToQuarter(mins) ==
  IF Le(mins, 0) THEN 0
  ELSE IF IsNaN(mins) THEN NaN
  ELSE ((mins + 14) \div 15) * 15

NSW_PUBLIC_HOLIDAYS ==
  {
     <<2016,1,1>>, <<2016,1,26>>, <<2016,3,25>>, <<2016,3,26>>, <<2016,3,27>>, <<2016,3,28>>, <<2016,4,25>>, <<2016,6,13>>, <<2016,10,3>>, <<2016,12,25>>, <<2016,12,26>>, <<2016,12,27>>,
     <<2017,1,1>>, <<2017,1,2>>, <<2017,1,26>>, <<2017,4,14>>, <<2017,4,15>>, <<2017,4,16>>, <<2017,4,17>>, <<2017,4,25>>, <<2017,6,12>>, <<2017,10,2>>, <<2017,12,25>>, <<2017,12,26>>,
     <<2018,1,1>>, <<2018,1,26>>, <<2018,3,30>>, <<2018,3,31>>, <<2018,4,1>>, <<2018,4,2>>, <<2018,4,25>>, <<2018,6,11>>, <<2018,10,1>>, <<2018,12,25>>, <<2018,12,26>>,
     <<2019,1,1>>, <<2019,1,26>>, <<2019,1,28>>, <<2019,4,19>>, <<2019,4,20>>, <<2019,4,21>>, <<2019,4,22>>, <<2019,4,25>>, <<2019,6,10>>, <<2019,10,7>>, <<2019,12,25>>, <<2019,12,26>>,
     <<2020,1,1>>, <<2020,1,26>>, <<2020,1,27>>, <<2020,4,10>>, <<2020,4,11>>, <<2020,4,12>>, <<2020,4,13>>, <<2020,4,25>>, <<2020,6,8>>, <<2020,10,5>>, <<2020,12,25>>, <<2020,12,26>>, <<2020,12,28>>,
     <<2021,1,1>>, <<2021,1,26>>, <<2021,4,2>>, <<2021,4,3>>, <<2021,4,4>>, <<2021,4,5>>, <<2021,4,25>>, <<2021,6,14>>, <<2021,10,4>>, <<2021,12,25>>, <<2021,12,26>>, <<2021,12,27>>, <<2021,12,28>>,
     <<2022,1,1>>, <<2022,1,3>>, <<2022,1,26>>, <<2022,4,15>>, <<2022,4,16>>, <<2022,4,17>>, <<2022,4,18>>, <<2022,4,25>>, <<2022,6,13>>, <<2022,9,22>>, <<2022,10,3>>, <<2022,12,25>>, <<2022,12,26>>, <<2022,12,27>>,
     <<2023,1,1>>, <<2023,1,2>>, <<2023,1,26>>, <<2023,4,7>>, <<2023,4,8>>, <<2023,4,9>>, <<2023,4,10>>, <<2023,4,25>>, <<2023,6,12>>, <<2023,10,2>>, <<2023,12,25>>, <<2023,12,26>>,
     <<2024,1,1>>, <<2024,1,26>>, <<2024,3,29>>, <<2024,3,30>>, <<2024,3,31>>, <<2024,4,1>>, <<2024,4,25>>, <<2024,6,10>>, <<2024,10,7>>, <<2024,12,25>>, <<2024,12,26>>,
     <<2025,1,1>>, <<2025,1,27>>, <<2025,4,18>>, <<2025,4,19>>, <<2025,4,20>>, <<2025,4,21>>, <<2025,4,25>>, <<2025,6,9>>, <<2025,10,6>>, <<2025,12,25>>, <<2025,12,26>>,
     <<2026,1,1>>, <<2026,1,26>>, <<2026,4,3>>, <<2026,4,4>>, <<2026,4,5>>, <<2026,4,6>>, <<2026,4,25>>, <<2026,6,8>>, <<2026,10,5>>, <<2026,12,25>>, <<2026,12,26>>, <<2026,12,28>>
  }

isPublicHoliday(dt) == <<dt.y, dt.m, dt.d>> \in NSW_PUBLIC_HOLIDAYS

(***************************************************************************)
(* Payroll rules engine                                                    *)
(***************************************************************************)
SpanStart == 8 * 60

SpanEnd == 20 * 60

DayEnd == 24 * 60

OrdinaryCap == 7 * 60

TierLimit == 120

MinimumPaid == 240

\* Number(breakMinutesInput)
ToNumber(b) ==
  IF b.kind = "num" THEN b.val ELSE IF b.kind = "empty" THEN 0 ELSE NaN

\* Math.max(0, Number(breakMinutesInput) || 0)
coerceBreak(b) ==
  LET n == ToNumber(b)
  IN  MathMax(0, IF IsNaN(n) \/ n = 0 THEN 0 ELSE n)

\* raw overlap of the shift with each band, before the break
rawSegments(s, e) ==
  [preSpan  |-> overlapMinutes(s, e, 0, SpanStart),
   inSpan   |-> overlapMinutes(s, e, SpanStart, SpanEnd),
   postSpan |-> overlapMinutes(s, e, SpanEnd, DayEnd)]

\* the closure subtractBreak over the locals pre, mid, post, remainingBreak
subtractBreak(st, key) ==
  LET cut == MathMin(st[key], st.remainingBreak)
  IN  [st EXCEPT ![key] = Sub(st[key], cut),
                 !.remainingBreak = Sub(st.remainingBreak, cut)]

\* fault variant: the break is taken from the pre-span band first
allocateBreak_PreFirst(seg, brk) ==
  LET s0 == [pre |-> seg.preSpan, mid |-> seg.inSpan, post |-> seg.postSpan,
             remainingBreak |-> brk]
  IN  subtractBreak(subtractBreak(subtractBreak(s0, "pre"), "mid"), "post")

\* in-span first, then pre-span, then post-span
allocateBreak(seg, brk) ==
  LET s0 == [pre |-> seg.preSpan, mid |-> seg.inSpan, post |-> seg.postSpan,
             remainingBreak |-> brk]
  IN  subtractBreak(subtractBreak(subtractBreak(s0, "mid"), "pre"), "post")

\* fault variant: the holiday status is not consulted, only the weekday name
classify_IgnoreHoliday(isPH, isSunday, isWeekend, pre, mid, post, workedMinutes) ==
  LET none == [ordinaryMinutes |-> 0, otSegments |-> <<>>,
               sundayOTMinutesRaw |-> 0, ph15Raw |-> 0, ph25Raw |-> 0]
  IN  IF isSunday THEN [none EXCEPT !.sundayOTMinutesRaw = workedMinutes]
      ELSE IF isWeekend THEN [none EXCEPT !.otSegments = <<pre, mid, post>>]
      ELSE LET ordinaryMinutes == MathMin(mid, OrdinaryCap)
               extraInSpanRaw == MathMax(0, Sub(mid, ordinaryMinutes))
           IN  [none EXCEPT !.ordinaryMinutes = ordinaryMinutes,
                            !.otSegments = <<pre, extraInSpanRaw, post>>]

\* fault variant: all in-span weekday time is ordinary, without the 7 hour cap
classify_NoCap(isPH, isSunday, isWeekend, pre, mid, post, workedMinutes) ==
  LET none == [ordinaryMinutes |-> 0, otSegments |-> <<>>,
               sundayOTMinutesRaw |-> 0, ph15Raw |-> 0, ph25Raw |-> 0]
  IN  IF isPH THEN [none EXCEPT !.ph15Raw = mid, !.ph25Raw = Add(pre, post)]
      ELSE IF isSunday THEN [none EXCEPT !.sundayOTMinutesRaw = workedMinutes]
      ELSE IF isWeekend THEN [none EXCEPT !.otSegments = <<pre, mid, post>>]
      ELSE LET ordinaryMinutes == mid
               extraInSpanRaw == MathMax(0, Sub(mid, ordinaryMinutes))
           IN  [none EXCEPT !.ordinaryMinutes = ordinaryMinutes,
                            !.otSegments = <<pre, extraInSpanRaw, post>>]

\* raw classification before rounding and the minimum-payment rule
classify(isPH, isSunday, isWeekend, pre, mid, post, workedMinutes) ==
  LET none == [ordinaryMinutes |-> 0, otSegments |-> <<>>,
               sundayOTMinutesRaw |-> 0, ph15Raw |-> 0, ph25Raw |-> 0]
  IN  IF isPH THEN [none EXCEPT !.ph15Raw = mid, !.ph25Raw = Add(pre, post)]
      ELSE IF isSunday THEN [none EXCEPT !.sundayOTMinutesRaw = workedMinutes]
      ELSE IF isWeekend THEN [none EXCEPT !.otSegments = <<pre, mid, post>>]
      ELSE LET ordinaryMinutes == MathMin(mid, OrdinaryCap)
               extraInSpanRaw == MathMax(0, Sub(mid, ordinaryMinutes))
           IN  [none EXCEPT !.ordinaryMinutes = ordinaryMinutes,
                            !.otSegments = <<pre, extraInSpanRaw, post>>]

\* otSegments.map(roundUpToQuarter)
mapRound(segs) == [i \in DOMAIN segs |-> roundUpToQuarter(segs[i])]

RECURSIVE sumFrom(_, _)
sumFrom(segs, i) ==
  IF i > Len(segs) THEN 0 ELSE Add(segs[i], sumFrom(segs, i + 1))

\* roundedSegments.reduce((a, b) => a + b, 0)
reduceSum(segs) == sumFrom(segs, 1)

\* fault variant: the segments are summed first and the sum is rounded once
roundAndTier_RoundSum(isPH, isSunday, isWeekend, raw) ==
  LET none == [ot15Minutes |-> 0, ot20Minutes |-> 0,
               ph15Minutes |-> 0, ph25Minutes |-> 0, roundedSegments |-> <<>>]
  IN  IF isPH THEN [none EXCEPT !.ph15Minutes = roundUpToQuarter(raw.ph15Raw),
                                !.ph25Minutes = roundUpToQuarter(raw.ph25Raw)]
      ELSE IF isSunday
        THEN [none EXCEPT !.ot20Minutes = roundUpToQuarter(raw.sundayOTMinutesRaw)]
      ELSE LET roundedSegments == mapRound(raw.otSegments)
               otTotalRounded == roundUpToQuarter(reduceSum(raw.otSegments))
           IN  [none EXCEPT !.ot15Minutes = MathMin(TierLimit, otTotalRounded),
                            !.ot20Minutes = MathMax(0, Sub(otTotalRounded, TierLimit)),
                            !.roundedSegments = roundedSegments]

\* fault variant: the two public-holiday amounts are rounded together, the
\* 2.5x bucket taking what the rounded total leaves after the 1.5x bucket
roundAndTier_HolidayRoundTotal(isPH, isSunday, isWeekend, raw) ==
  LET none == [ot15Minutes |-> 0, ot20Minutes |-> 0,
               ph15Minutes |-> 0, ph25Minutes |-> 0, roundedSegments |-> <<>>]
  IN  IF isPH
        THEN LET total == roundUpToQuarter(Add(raw.ph15Raw, raw.ph25Raw))
                 first == roundUpToQuarter(raw.ph15Raw)
             IN  [none EXCEPT !.ph15Minutes = first,
                              !.ph25Minutes = Sub(total, first)]
      ELSE IF isSunday
        THEN [none EXCEPT !.ot20Minutes = roundUpToQuarter(raw.sundayOTMinutesRaw)]
      ELSE LET roundedSegments == mapRound(raw.otSegments)
               otTotalRounded == reduceSum(roundedSegments)
           IN  [none EXCEPT !.ot15Minutes = MathMin(TierLimit, otTotalRounded),
                            !.ot20Minutes = MathMax(0, Sub(otTotalRounded, TierLimit)),
                            !.roundedSegments = roundedSegments]

\* fault variant: the public-holiday amounts are left unrounded
roundAndTier_RawHoliday(isPH, isSunday, isWeekend, raw) ==
  LET none == [ot15Minutes |-> 0, ot20Minutes |-> 0,
               ph15Minutes |-> 0, ph25Minutes |-> 0, roundedSegments |-> <<>>]
  IN  IF isPH THEN [none EXCEPT !.ph15Minutes = raw.ph15Raw,
                                !.ph25Minutes = raw.ph25Raw]
      ELSE IF isSunday
        THEN [none EXCEPT !.ot20Minutes = roundUpToQuarter(raw.sundayOTMinutesRaw)]
      ELSE LET roundedSegments == mapRound(raw.otSegments)
               otTotalRounded == reduceSum(roundedSegments)
           IN  [none EXCEPT !.ot15Minutes = MathMin(TierLimit, otTotalRounded),
                            !.ot20Minutes = MathMax(0, Sub(otTotalRounded, TierLimit)),
                            !.roundedSegments = roundedSegments]

\* overtime and public-holiday penalties with segment-based rounding; the
\* Saturday branch and the weekday branch of the source are the same code
roundAndTier(isPH, isSunday, isWeekend, raw) ==
  LET none == [ot15Minutes |-> 0, ot20Minutes |-> 0,
               ph15Minutes |-> 0, ph25Minutes |-> 0, roundedSegments |-> <<>>]
  IN  IF isPH THEN [none EXCEPT !.ph15Minutes = roundUpToQuarter(raw.ph15Raw),
                                !.ph25Minutes = roundUpToQuarter(raw.ph25Raw)]
      ELSE IF isSunday
        THEN [none EXCEPT !.ot20Minutes = roundUpToQuarter(raw.sundayOTMinutesRaw)]
      ELSE LET roundedSegments == mapRound(raw.otSegments)
               otTotalRounded == reduceSum(roundedSegments)
           IN  [none EXCEPT !.ot15Minutes = MathMin(TierLimit, otTotalRounded),
                            !.ot20Minutes = MathMax(0, Sub(otTotalRounded, TierLimit)),
                            !.roundedSegments = roundedSegments]

\* fault variant: the shortfall is never added
minimumRule_NoFloor(isPH, isSunday, isWeekend, ordinaryMinutes, r) ==
  LET paidMinutes ==
        IF isPH THEN Add(r.ph15Minutes, r.ph25Minutes)
        ELSE IF isSunday THEN r.ot20Minutes
        ELSE IF isWeekend THEN Add(r.ot15Minutes, r.ot20Minutes)
        ELSE Add(Add(ordinaryMinutes, r.ot15Minutes), r.ot20Minutes)
  IN  [minimumRuleApplied |-> FALSE, paidMinutes |-> paidMinutes,
       ot20Minutes |-> r.ot20Minutes, ph25Minutes |-> r.ph25Minutes]

\* fault variant: the floor applies on every day type, topping up the 2.0x bucket
minimumRule_EveryDay(isPH, isSunday, isWeekend, ordinaryMinutes, r) ==
  LET paidMinutes ==
        IF isPH THEN Add(r.ph15Minutes, r.ph25Minutes)
        ELSE IF isSunday THEN r.ot20Minutes
        ELSE IF isWeekend THEN Add(r.ot15Minutes, r.ot20Minutes)
        ELSE Add(Add(ordinaryMinutes, r.ot15Minutes), r.ot20Minutes)
  IN  IF Lt(paidMinutes, MinimumPaid)
        THEN LET diff == Sub(MinimumPaid, paidMinutes)
             IN  [minimumRuleApplied |-> TRUE, paidMinutes |-> MinimumPaid,
                  ot20Minutes |-> IF isPH THEN r.ot20Minutes
                                  ELSE Add(r.ot20Minutes, diff),
                  ph25Minutes |-> IF isPH THEN Add(r.ph25Minutes, diff)
                                  ELSE r.ph25Minutes]
        ELSE [minimumRuleApplied |-> FALSE, paidMinutes |-> paidMinutes,
              ot20Minutes |-> r.ot20Minutes, ph25Minutes |-> r.ph25Minutes]

\* minimum 4-hour payment rule for Sunday and public holidays
minimumRule(isPH, isSunday, isWeekend, ordinaryMinutes, r) ==
  LET paidMinutes ==
        IF isPH THEN Add(r.ph15Minutes, r.ph25Minutes)
        ELSE IF isSunday THEN r.ot20Minutes
        ELSE IF isWeekend THEN Add(r.ot15Minutes, r.ot20Minutes)
        ELSE Add(Add(ordinaryMinutes, r.ot15Minutes), r.ot20Minutes)
  IN  IF (isPH \/ isSunday) /\ Lt(paidMinutes, MinimumPaid)
        THEN LET diff == Sub(MinimumPaid, paidMinutes)
             IN  [minimumRuleApplied |-> TRUE, paidMinutes |-> MinimumPaid,
                  ot20Minutes |-> IF isPH THEN r.ot20Minutes
                                  ELSE Add(r.ot20Minutes, diff),
                  ph25Minutes |-> IF isPH THEN Add(r.ph25Minutes, diff)
                                  ELSE r.ph25Minutes]
        ELSE [minimumRuleApplied |-> FALSE, paidMinutes |-> paidMinutes,
              ot20Minutes |-> r.ot20Minutes, ph25Minutes |-> r.ph25Minutes]

SixAM == 360

SixPM == 1080

MealHours == 5

RuleBefore6 == "Work commenced before 06:00 on a weekday."

RuleOvertime18 == "More than 2 hours overtime extending beyond 18:00 on a weekday."

RuleWeekend == "More than 5 hours worked on a weekend day."

RuleHoliday == "More than 5 hours worked on a public holiday."

\* fault variant: the weekend and holiday rules add a meal instead of setting 1
mealAllowances_Increment(isPH, isWeekend, s, e, pre, mid, post, ordinaryMinutes, workedMinutes) ==
  LET workedHours == toHours(workedMinutes)
      startedBefore6 == ~isPH /\ ~isWeekend /\ Lt(s, SixAM)
      finishedAfter18 == Gt(e, SixPM)
      extraInSpanForWeekday == MathMax(0, Sub(mid, ordinaryMinutes))
      otMinutesTotalForWeekday == Add(Add(pre, post), extraInSpanForWeekday)
      m1 == IF startedBefore6 THEN 1 ELSE 0
      r1 == IF startedBefore6 THEN <<RuleBefore6>> ELSE <<>>
      c2 == ~isPH /\ ~isWeekend /\ Gt(otMinutesTotalForWeekday, TierLimit)
              /\ finishedAfter18
      m2 == IF c2 THEN m1 + 1 ELSE m1
      r2 == IF c2 THEN Append(r1, RuleOvertime18) ELSE r1
      c3 == isWeekend /\ Gt(workedHours, MealHours * 100)
      m3 == IF c3 THEN m2 + 1 ELSE m2
      r3 == IF c3 THEN Append(r2, RuleWeekend) ELSE r2
      c4 == isPH /\ Gt(workedHours, MealHours * 100)
      m4 == IF c4 THEN m3 + 1 ELSE m3
      r4 == IF c4 THEN Append(r3, RuleHoliday) ELSE r3
      m5 == IF ~isPH /\ ~isWeekend /\ m4 > 2 THEN 2 ELSE m4
  IN  [meals |-> m5, mealRules |-> r4]

\* meal allowances, based on worked minutes, not paid minutes
mealAllowances(isPH, isWeekend, s, e, pre, mid, post, ordinaryMinutes, workedMinutes) ==
  LET workedHours == toHours(workedMinutes)
      startedBefore6 == ~isPH /\ ~isWeekend /\ Lt(s, SixAM)
      finishedAfter18 == Gt(e, SixPM)
      extraInSpanForWeekday == MathMax(0, Sub(mid, ordinaryMinutes))
      otMinutesTotalForWeekday == Add(Add(pre, post), extraInSpanForWeekday)
      m1 == IF startedBefore6 THEN 1 ELSE 0
      r1 == IF startedBefore6 THEN <<RuleBefore6>> ELSE <<>>
      c2 == ~isPH /\ ~isWeekend /\ Gt(otMinutesTotalForWeekday, TierLimit)
              /\ finishedAfter18
      m2 == IF c2 THEN m1 + 1 ELSE m1
      r2 == IF c2 THEN Append(r1, RuleOvertime18) ELSE r1
      c3 == isWeekend /\ Gt(workedHours, MealHours * 100)
      m3 == IF c3 THEN 1 ELSE m2
      r3 == IF c3 THEN Append(r2, RuleWeekend) ELSE r2
      c4 == isPH /\ Gt(workedHours, MealHours * 100)
      m4 == IF c4 THEN 1 ELSE m3
      r4 == IF c4 THEN Append(r3, RuleHoliday) ELSE r3
      m5 == IF ~isPH /\ ~isWeekend /\ m4 > 2 THEN 2 ELSE m4
  IN  [meals |-> m5, mealRules |-> r4]

\* the two early returns of applyRules
missingInput(dateStr, startStr, endStr) ==
  dateStr.kind = "empty" \/ startStr.kind = "empty" \/ endStr.kind = "empty"

\* fault variant: a shift whose end equals its start is accepted
invalidWindow_Strict(s, e) == Lt(e, s)

invalidWindow(s, e) == Le(e, s)

\* the computation of applyRules after its input checks: the locals and the
\* CalculationResult (hours in hundredths)
compute(dateStr, startStr, endStr, breakMinutesInput) ==
  LET dayOfWeek == getDayOfWeek(dateStr)
      isPH == isPublicHoliday(dateStr)
      isSunday == dayOfWeek = "Sunday"
      isWeekend == dayOfWeek = "Saturday" \/ dayOfWeek = "Sunday"
      s == parseTimeToMinutes(startStr)
      e == parseTimeToMinutes(endStr)
      brk == coerceBreak(breakMinutesInput)
      seg == rawSegments(s, e)
      al == allocateBreak(seg, brk)
      workedMinutes == Add(Add(al.pre, al.mid), al.post)
      raw == classify(isPH, isSunday, isWeekend, al.pre, al.mid, al.post, workedMinutes)
      rnd == roundAndTier(isPH, isSunday, isWeekend, raw)
      fl == minimumRule(isPH, isSunday, isWeekend, raw.ordinaryMinutes, rnd)
      ml == mealAllowances(isPH, isWeekend, s, e, al.pre, al.mid, al.post,
                           raw.ordinaryMinutes, workedMinutes)
  IN  [locals |->
         [start |-> s, end |-> e, breakMinutes |-> brk,
          preSpan |-> seg.preSpan, inSpan |-> seg.inSpan, postSpan |-> seg.postSpan,
          pre |-> al.pre, mid |-> al.mid, post |-> al.post,
          remainingBreak |-> al.remainingBreak,
          workedMinutes |-> workedMinutes,
          ordinaryMinutes |-> raw.ordinaryMinutes,
          otSegments |-> raw.otSegments,
          ph15Raw |-> raw.ph15Raw, ph25Raw |-> raw.ph25Raw,
          sundayOTMinutesRaw |-> raw.sundayOTMinutesRaw,
          roundedSegments |-> rnd.roundedSegments,
          ot15Rounded |-> rnd.ot15Minutes, ot20Rounded |-> rnd.ot20Minutes,
          ph15Rounded |-> rnd.ph15Minutes, ph25Rounded |-> rnd.ph25Minutes,
          paidMinutes |-> fl.paidMinutes],
       ret |->
         [dayOfWeek |-> dayOfWeek,
          isWeekend |-> isWeekend,
          isPublicHoliday |-> isPH,
          paidHours |-> toHours(fl.paidMinutes),
          ordinaryHours |-> toHours(raw.ordinaryMinutes),
          overtime15 |-> toHours(rnd.ot15Minutes),
          overtime20 |-> toHours(fl.ot20Minutes),
          publicHoliday15 |-> toHours(rnd.ph15Minutes),
          publicHoliday25 |-> toHours(fl.ph25Minutes),
          minimumRuleApplied |-> fl.minimumRuleApplied,
          mealAllowances |-> ml.meals,
          mealRules |-> ml.mealRules]]

\* applyRules: NULL, or the one-element sequence holding the result
applyRules(dateStr, startStr, endStr, breakMinutesInput) ==
  IF missingInput(dateStr, startStr, endStr) THEN [locals |-> <<>>, ret |-> NULL]
  ELSE IF invalidWindow(parseTimeToMinutes(startStr), parseTimeToMinutes(endStr))
    THEN [locals |-> <<>>, ret |-> NULL]
  ELSE LET c == compute(dateStr, startStr, endStr, breakMinutesInput)
       IN  [locals |-> <<c.locals>>, ret |-> <<c.ret>>]

(***************************************************************************)
(* The form state of App and its Calculate handler.  Init is the form as   *)
(* the user has filled it in, with no result shown yet.                    *)
(***************************************************************************)
MaxBreakSteps == 3

HourChoices == {0, 5, 6, 7, 8, 9, 12, 17, 18, 20, 21, 22, 23}

MinuteChoices == {0, 5, 55}

TimeInputs ==
  {EmptyTime, BadTime} \cup {HHMM(hh, mm) : hh \in HourChoices, mm \in MinuteChoices}

\* New Year's Day (Monday), a Saturday, a Sunday and a Wednesday that are
\* not holidays, and Good Friday, Easter Saturday and Easter Sunday
DateInputs ==
  {EmptyDate, ISODate(2024, 1, 1), ISODate(2024, 3, 23), ISODate(2024, 3, 24),
   ISODate(2024, 3, 27), ISODate(2024, 3, 29), ISODate(2024, 3, 30),
   ISODate(2024, 3, 31)}

BreakInputs ==
  {EmptyBreak, TextBreak, NumBreak(0 - 30)}
    \cup {NumBreak(k * 30) : k \in 0..MaxBreakSteps}
    \cup {NumBreak(295), NumBreak(715), NumBreak(728)}

Init ==
  /\ date \in DateInputs
  /\ start \in TimeInputs
  /\ end \in TimeInputs
  /\ breakMinutes \in BreakInputs
  /\ result = NULL
  /\ locals = <<>>
  /\ calculated = FALSE

\* handleCalculate: setResult(applyRules(date, start, end, breakMinutes))
handleCalculate ==
  /\ ~calculated
  /\ LET out == applyRules(date, start, end, breakMinutes)
     IN  /\ result' = out.ret
         /\ locals' = out.locals
  /\ calculated' = TRUE
  /\ UNCHANGED <<date, start, end, breakMinutes>>

Next == handleCalculate

Spec == Init /\ [][Next]_vars

(***************************************************************************)
(* Vocabulary of the properties                                            *)
(***************************************************************************)
Res == result[1]

Loc == locals[1]

Present == date.kind = "iso" /\ start.kind # "empty" /\ end.kind # "empty"

TimesParse == start.kind = "hhmm" /\ end.kind = "hhmm"

StartMin == start.h * 60 + start.m

EndMin == end.h * 60 + end.m

Gross == EndMin - StartMin

\* date, start and end present, both times well-formed, end after start
ValidShift == date.kind = "iso" /\ TimesParse /\ EndMin > StartMin

\* the break the user asked for: a non-negative number, else 0
RequestedBreak ==
  IF breakMinutes.kind = "num" /\ breakMinutes.val > 0 THEN breakMinutes.val ELSE 0

OnHoliday == isPublicHoliday(date)

OnSunday == getDayOfWeek(date) = "Sunday"

OnSaturday == getDayOfWeek(date) = "Saturday"

PlainSunday == OnSunday /\ ~OnHoliday

PlainSaturday == OnSaturday /\ ~OnHoliday

PlainWeekday == ~OnSunday /\ ~OnSaturday /\ ~OnHoliday

Least(a, b) == IF a <= b THEN a ELSE b

Most(a, b) == IF a >= b THEN a ELSE b

\* minutes of the shift window before 08:00, in [08:00, 20:00) and from 20:00
BandPre == Most(0, Least(EndMin, 480) - StartMin)

BandIn == Most(0, Least(EndMin, 1200) - Most(StartMin, 480))

BandPost == Most(0, EndMin - Most(StartMin, 1200))

\* what is left of each band once the break has eaten in-span, then pre-span,
\* then post-span time
WorkedIn == Most(0, BandIn - RequestedBreak)

WorkedPre == Most(0, BandPre - Most(0, RequestedBreak - BandIn))

WorkedPost == Most(0, BandPost - Most(0, RequestedBreak - BandIn - BandPre))

\* a number of minutes, as the hundredths of an hour a result field holds
Hrs(mins) == (mins * 100 + 30) \div 60

\* a result field (hundredths of an hour) that is a whole number of quarter hours
QuarterHours(h) == h % 25 = 0

(***************************************************************************)
(* C1: every valid shift on a Sunday or a public holiday is paid at least  *)
(* 4.0 hours, also when the break consumes the whole shift.                *)
(***************************************************************************)
C1_MinimumFourHours ==
  (calculated /\ ValidShift /\ (OnSunday \/ OnHoliday))
    => (result # NULL /\ Res.paidHours >= 400)

\* a Sunday shift whose break leaves nothing worked and that is paid 4.0 hours
C1_Witness ==
  /\ calculated /\ ValidShift /\ PlainSunday
  /\ RequestedBreak >= Gross
  /\ result # NULL
  /\ Loc.workedMinutes = 0
  /\ Res.paidHours = 400

(***************************************************************************)
(* C2: for time fields that are empty or well-formed, applyRules returns   *)
(* null exactly when the date, the start or the end is missing or the end  *)
(* is not strictly after the start; otherwise it returns a result.         *)
(***************************************************************************)
C2_NullExactlyOnInvalidInput ==
  (calculated /\ start.kind # "bad" /\ end.kind # "bad")
    => ((result = NULL /\ locals = <<>>)
          <=> (date.kind = "empty" \/ start.kind = "empty" \/ end.kind = "empty"
                 \/ ~(EndMin > StartMin)))

\* a shift whose end equals its start has been rejected
C2_Witness ==
  /\ calculated /\ Present /\ TimesParse
  /\ EndMin = StartMin
  /\ result = NULL

(***************************************************************************)
(* C3: a non-empty malformed start or end time is rejected: applyRules     *)
(* returns null and never a result computed from the unusable value.       *)
(***************************************************************************)
C3_MalformedTimeRejected ==
  (calculated /\ Present /\ (start.kind = "bad" \/ end.kind = "bad"))
    => result = NULL

(***************************************************************************)
(* C4: the day classification decides which buckets may be non-zero, and   *)
(* holiday status overrides the weekday name.                              *)
(***************************************************************************)
C4_BucketsByDayClass ==
  (calculated /\ ValidShift) =>
    /\ result # NULL
    /\ OnHoliday =>
         Res.ordinaryHours = 0 /\ Res.overtime15 = 0 /\ Res.overtime20 = 0
    /\ PlainSunday =>
         /\ Res.ordinaryHours = 0 /\ Res.overtime15 = 0
         /\ Res.publicHoliday15 = 0 /\ Res.publicHoliday25 = 0
    /\ PlainSaturday =>
         /\ Res.ordinaryHours = 0
         /\ Res.publicHoliday15 = 0 /\ Res.publicHoliday25 = 0
    /\ PlainWeekday =>
         Res.publicHoliday15 = 0 /\ Res.publicHoliday25 = 0

\* a shift on a Sunday that is a public holiday, paid in the holiday buckets
C4_Witness ==
  /\ calculated /\ ValidShift /\ OnHoliday /\ OnSunday
  /\ result # NULL
  /\ Res.publicHoliday15 > 0 /\ Res.publicHoliday25 > 0
  /\ Res.overtime20 = 0 /\ Res.overtime15 = 0 /\ Res.ordinaryHours = 0

(***************************************************************************)
(* C5: on a non-holiday weekday ordinary minutes are min(in-span worked    *)
(* minutes after the break, 420), and the raw overtime segments are the    *)
(* pre-span worked minutes, the in-span worked minutes above 420 and the   *)
(* post-span worked minutes; so a shift inside 08:00-20:00 of at most 7    *)
(* hours with no break is all ordinary time and has no overtime.           *)
(***************************************************************************)
C5_WeekdayOrdinaryAndSegments ==
  (calculated /\ ValidShift /\ PlainWeekday) =>
    /\ result # NULL
    /\ Loc.ordinaryMinutes = Least(WorkedIn, 420)
    /\ Res.ordinaryHours = Hrs(Least(WorkedIn, 420))
    /\ Loc.otSegments = <<WorkedPre, Most(0, WorkedIn - 420), WorkedPost>>
    /\ (StartMin >= 480 /\ EndMin <= 1200 /\ Gross <= 420 /\ RequestedBreak = 0) =>
         /\ Res.ordinaryHours = Hrs(Gross)
         /\ Res.overtime15 = 0
         /\ Res.overtime20 = 0

\* a weekday shift with worked time before, above 7 hours inside and after the span
C5_Witness ==
  /\ calculated /\ ValidShift /\ PlainWeekday
  /\ result # NULL
  /\ Loc.mid > 420
  /\ Res.ordinaryHours = 700
  /\ Loc.otSegments[1] > 0 /\ Loc.otSegments[2] > 0 /\ Loc.otSegments[3] > 0

\* a weekday shift inside the span, 7 hours at most, no break: all ordinary
C5_WitnessInSpan ==
  /\ calculated /\ ValidShift /\ PlainWeekday
  /\ StartMin >= 480 /\ EndMin <= 1200 /\ Gross <= 420 /\ RequestedBreak = 0
  /\ result # NULL
  /\ Res.ordinaryHours = Hrs(Gross) /\ Res.ordinaryHours > 0
  /\ Res.paidHours = Res.ordinaryHours

(***************************************************************************)
(* C6: on non-holiday weekdays and Saturdays each raw overtime segment is  *)
(* rounded up to 15 minutes on its own, the rounded segments are summed,   *)
(* and the sum is tiered by total: 1.5x = min(120, sum), 2.0x = max(0,     *)
(* sum - 120).  So the two overtime buckets add up to the sum of the       *)
(* rounded segments and 2.0x is positive only when 1.5x is 120 minutes.    *)
(***************************************************************************)
C6_SegmentRoundingThenTier ==
  (calculated /\ ValidShift /\ (PlainWeekday \/ PlainSaturday)) =>
    /\ result # NULL
    /\ Len(Loc.otSegments) = 3
    /\ LET q(x) == IF x <= 0 THEN 0 ELSE 15 * ((x + 14) \div 15)
           otTotalRounded ==
             q(Loc.otSegments[1]) + q(Loc.otSegments[2]) + q(Loc.otSegments[3])
       IN  /\ Res.overtime15 = Hrs(Least(120, otTotalRounded))
           /\ Res.overtime20 = Hrs(Most(0, otTotalRounded - 120))
           /\ Res.overtime15 + Res.overtime20 = Hrs(otTotalRounded)
           /\ Res.overtime20 > 0 => Res.overtime15 = 200

\* three 5-minute overtime segments are paid as 45 minutes
C6_Witness ==
  /\ calculated /\ ValidShift /\ (PlainWeekday \/ PlainSaturday)
  /\ result # NULL
  /\ Loc.otSegments = <<5, 5, 5>>
  /\ Res.overtime15 = 75
  /\ Res.overtime20 = 0

(***************************************************************************)
(* C7: the meal-allowance count.  On a non-holiday weekday: one for a      *)
(* start before 06:00 plus one for more than 120 unrounded overtime        *)
(* minutes with an end after 18:00, never more than 2.  On a Saturday,     *)
(* Sunday or public holiday: 1 if more than 5 hours were worked after the  *)
(* break, else 0, whatever the start time.                                 *)
(***************************************************************************)
C7_MealAllowanceCount ==
  (calculated /\ ValidShift) =>
    /\ result # NULL
    /\ LET worked == Gross - Least(RequestedBreak, Gross)
           overtimeRaw == WorkedPre + WorkedPost + Most(0, WorkedIn - 420)
       IN  /\ PlainWeekday =>
                /\ Res.mealAllowances =
                     (IF StartMin < 360 THEN 1 ELSE 0)
                       + (IF overtimeRaw > 120 /\ EndMin > 1080 THEN 1 ELSE 0)
                /\ Res.mealAllowances <= 2
           /\ ~PlainWeekday =>
                Res.mealAllowances = (IF worked > 300 THEN 1 ELSE 0)

\* more than 5 hours worked on a Sunday that is a public holiday: one meal
C7_Witness ==
  /\ calculated /\ ValidShift /\ OnHoliday /\ OnSunday
  /\ result # NULL
  /\ Loc.workedMinutes > 300
  /\ StartMin < 360
  /\ Res.mealAllowances = 1

\* a weekday shift that earns both meal allowances
C7_WitnessWeekdayTwo ==
  /\ calculated /\ ValidShift /\ PlainWeekday
  /\ result # NULL
  /\ Res.mealAllowances = 2

(***************************************************************************)
(* C8 as stated: every pay bucket of a result is a whole multiple of 15    *)
(* minutes.                                                                *)
(***************************************************************************)
C8_EveryBucketQuarterHours ==
  (calculated /\ ValidShift) =>
    /\ result # NULL
    /\ QuarterHours(Res.ordinaryHours)
    /\ QuarterHours(Res.overtime15)
    /\ QuarterHours(Res.overtime20)
    /\ QuarterHours(Res.publicHoliday15)
    /\ QuarterHours(Res.publicHoliday25)

(***************************************************************************)
(* C8 amended: the overtime and public-holiday buckets are whole multiples *)
(* of 15 minutes; the ordinary bucket holds the unrounded minutes          *)
(* min(in-span worked minutes, 420) on a non-holiday weekday, else 0.      *)
(***************************************************************************)
C8_PenaltyBucketsQuarterHours ==
  (calculated /\ ValidShift) =>
    /\ result # NULL
    /\ QuarterHours(Res.overtime15)
    /\ QuarterHours(Res.overtime20)
    /\ QuarterHours(Res.publicHoliday15)
    /\ QuarterHours(Res.publicHoliday25)
    /\ Res.ordinaryHours = IF PlainWeekday THEN Hrs(Least(WorkedIn, 420)) ELSE 0

\* a weekday result whose ordinary time is not a multiple of 15 minutes while
\* its overtime is
C8_Witness ==
  /\ calculated /\ ValidShift /\ PlainWeekday
  /\ result # NULL
  /\ Loc.ordinaryMinutes % 15 # 0
  /\ ~QuarterHours(Res.ordinaryHours)
  /\ Res.overtime15 > 0 /\ QuarterHours(Res.overtime15)

(***************************************************************************)
(* C9: the break is taken from the in-span band, then the pre-span band,   *)
(* then the post-span band, each step taking min(band, remaining break).   *)
(* No band goes negative, a later band is reduced only when every earlier  *)
(* band is 0, the total taken is min(break, end - start), and the worked   *)
(* minutes are (end - start) minus what was taken.                         *)
(***************************************************************************)
C9_BreakAllocationOrder ==
  (calculated /\ ValidShift) =>
    /\ result # NULL
    /\ Loc.preSpan = BandPre /\ Loc.inSpan = BandIn /\ Loc.postSpan = BandPost
    /\ Loc.preSpan + Loc.inSpan + Loc.postSpan = Gross
    /\ Loc.mid >= 0 /\ Loc.pre >= 0 /\ Loc.post >= 0
    /\ Loc.mid = Loc.inSpan - Least(Loc.inSpan, RequestedBreak)
    /\ Loc.pre = Loc.preSpan
                   - Least(Loc.preSpan, RequestedBreak - (Loc.inSpan - Loc.mid))
    /\ Loc.post = Loc.postSpan
                    - Least(Loc.postSpan, RequestedBreak - (Loc.inSpan - Loc.mid)
                                            - (Loc.preSpan - Loc.pre))
    /\ Loc.pre < Loc.preSpan => Loc.mid = 0
    /\ Loc.post < Loc.postSpan => (Loc.mid = 0 /\ Loc.pre = 0)
    /\ LET consumed == (Loc.inSpan - Loc.mid) + (Loc.preSpan - Loc.pre)
                         + (Loc.postSpan - Loc.post)
       IN  /\ consumed = Least(RequestedBreak, Gross)
           /\ Loc.workedMinutes = Gross - consumed

\* 07:00-21:00 with a 90 minute break leaves in = 630, pre = 60, post = 60
C9_Witness ==
  /\ calculated /\ ValidShift
  /\ StartMin = 420 /\ EndMin = 1260 /\ RequestedBreak = 90
  /\ result # NULL
  /\ Loc.mid = 630 /\ Loc.pre = 60 /\ Loc.post = 60

\* a break that empties the in-span and pre-span bands and reaches the post-span band
C9_WitnessSpill ==
  /\ calculated /\ ValidShift
  /\ result # NULL
  /\ Loc.inSpan > 0 /\ Loc.preSpan > 0
  /\ Loc.mid = 0 /\ Loc.pre = 0
  /\ Loc.post > 0 /\ Loc.post < Loc.postSpan

(***************************************************************************)
(* C10: minimumRuleApplied is true exactly when the day is a Sunday or a   *)
(* public holiday and the rounded paid minutes before the floor (ph15 +    *)
(* ph25 on a holiday, ot20 on a Sunday) are below 240.  Then the whole     *)
(* shortfall goes to one bucket (publicHoliday-2.5x on a holiday,          *)
(* overtime-2.0x on a non-holiday Sunday), every other bucket is unchanged *)
(* and paid minutes are exactly 240.  On non-holiday weekdays and          *)
(* Saturdays the flag is never set.                                        *)
(***************************************************************************)
C10_MinimumRuleFlagAndShortfall ==
  (calculated /\ ValidShift) =>
    /\ result # NULL
    /\ LET before == IF OnHoliday THEN Loc.ph15Rounded + Loc.ph25Rounded
                     ELSE Loc.ot20Rounded
           shortfall == 240 - before
       IN  /\ Res.minimumRuleApplied <=> ((OnSunday \/ OnHoliday) /\ before < 240)
           /\ Res.minimumRuleApplied =>
                /\ Loc.paidMinutes = 240
                /\ Res.paidHours = 400
                /\ Res.ordinaryHours = Hrs(Loc.ordinaryMinutes)
                /\ Res.overtime15 = Hrs(Loc.ot15Rounded)
                /\ Res.publicHoliday15 = Hrs(Loc.ph15Rounded)
                /\ OnHoliday =>
                     /\ Res.publicHoliday25 = Hrs(Loc.ph25Rounded + shortfall)
                     /\ Res.overtime20 = Hrs(Loc.ot20Rounded)
                /\ ~OnHoliday =>
                     /\ Res.overtime20 = Hrs(Loc.ot20Rounded + shortfall)
                     /\ Res.publicHoliday25 = Hrs(Loc.ph25Rounded)
           /\ ~Res.minimumRuleApplied =>
                /\ Res.overtime20 = Hrs(Loc.ot20Rounded)
                /\ Res.publicHoliday25 = Hrs(Loc.ph25Rounded)
           /\ (PlainWeekday \/ PlainSaturday) => ~Res.minimumRuleApplied

\* the floor fires on a public holiday: the 1.5x bucket keeps its rounded
\* minutes and the 2.5x bucket takes the whole shortfall
C10_Witness ==
  /\ calculated /\ ValidShift /\ OnHoliday
  /\ result # NULL
  /\ Res.minimumRuleApplied
  /\ Loc.ph15Rounded > 0 /\ Loc.ph25Rounded > 0
  /\ Res.publicHoliday15 = Hrs(Loc.ph15Rounded)
  /\ Res.publicHoliday25 > Hrs(Loc.ph25Rounded)
  /\ Res.publicHoliday15 + Res.publicHoliday25 = 400

\* a Saturday shift paid less than 4 hours, the flag not set
C10_WitnessSaturdayBelow ==
  /\ calculated /\ ValidShift /\ PlainSaturday
  /\ result # NULL
  /\ ~Res.minimumRuleApplied
  /\ Res.paidHours > 0 /\ Res.paidHours < 400

(***************************************************************************)
(* C11: on a public holiday the in-span worked minutes go to the 1.5x      *)
(* holiday bucket and the pre-span plus post-span worked minutes go        *)
(* together to the 2.5x holiday bucket, each raw amount rounded up to 15   *)
(* minutes on its own.  When the floor does not fire, publicHoliday15 is   *)
(* the rounded in-span worked minutes, publicHoliday25 the rounded pre +   *)
(* post worked minutes, and the paid minutes are their sum.                *)
(***************************************************************************)
C11_HolidayBucketsSplit ==
  (calculated /\ ValidShift /\ OnHoliday) =>
    /\ result # NULL
    /\ LET q(x) == IF x <= 0 THEN 0 ELSE 15 * ((x + 14) \div 15)
       IN  /\ Loc.ph15Raw = WorkedIn
           /\ Loc.ph25Raw = WorkedPre + WorkedPost
           /\ Loc.ph15Rounded = q(WorkedIn)
           /\ Loc.ph25Rounded = q(WorkedPre + WorkedPost)
           /\ ~Res.minimumRuleApplied =>
                /\ Res.publicHoliday15 = Hrs(q(WorkedIn))
                /\ Res.publicHoliday25 = Hrs(q(WorkedPre + WorkedPost))
                /\ Res.paidHours = Hrs(q(WorkedIn) + q(WorkedPre + WorkedPost))

\* 2024-01-01, 06:00-22:00, break 60: 660 + 240 minutes, 15.0 paid hours, no floor
C11_Witness ==
  /\ calculated /\ ValidShift
  /\ date = ISODate(2024, 1, 1)
  /\ StartMin = 360 /\ EndMin = 1320 /\ RequestedBreak = 60
  /\ result # NULL
  /\ ~Res.minimumRuleApplied
  /\ Res.publicHoliday15 = 1100
  /\ Res.publicHoliday25 = 400
  /\ Res.paidHours = 1500

\* a holiday shift above the floor whose two raw amounts both round up
C11_WitnessBothRoundUp ==
  /\ calculated /\ ValidShift /\ OnHoliday
  /\ result # NULL
  /\ ~Res.minimumRuleApplied
  /\ Loc.ph15Raw % 15 # 0 /\ Loc.ph25Raw % 15 # 0
  /\ Res.paidHours > Hrs(Loc.workedMinutes + 15)

====
